---- MODULE Spec2Model ----
(***************************************************************************)
(* Model of api/serve-domain.js: the per-request domain router (the first  *)
(* module.exports, lines 6-78) with its helpers sendHtml, send404 and      *)
(* sendError.                                                              *)
(*                                                                         *)
(* Strings are sequences of one-character strings, file contents are       *)
(* sequences of byte values.  A request is handled in steps, one per       *)
(* section of the handler; the filesystem may be changed by the            *)
(* environment between two filesystem calls of the same request.           *)
(***************************************************************************)
EXTENDS Integers, Sequences, FiniteSets, TLC

\* Number of filesystem changes the environment may make during one request.
MaxFsChanges == 1

(***************************************************************************)
(* Characters and string helpers                                           *)
(***************************************************************************)
LowerChars == {"a", "c", "o", "w", "i", "n", "d", "e", "x", "h", "t", "m", "l", "v"}
UpperChars == {"A", "C", "O", "W"}
DigitChars == {"8"}

ToLowerChar(c) ==
  CASE c = "A" -> "a"
    [] c = "C" -> "c"
    [] c = "O" -> "o"
    [] c = "W" -> "w"
    [] OTHER -> c

ToLower(s) == [i \in 1..Len(s) |-> ToLowerChar(s[i])]

IsAlpha(c) == c \in LowerChars \cup UpperChars
IsAlnum(c) == IsAlpha(c) \/ c \in DigitChars
IsDomainChar(c) == IsAlnum(c) \/ c \in {".", "-"}

StartsWith(s, p) == Len(s) >= Len(p) /\ SubSeq(s, 1, Len(p)) = p

Includes(s, p) == \E i \in 1..(Len(s) - Len(p) + 1) : SubSeq(s, i, i + Len(p) - 1) = p

\* rawHost.split(':')[0]
BeforeColon(s) ==
  IF \E i \in 1..Len(s) : s[i] = ":"
  THEN LET k == CHOOSE i \in 1..Len(s) : s[i] = ":" /\ \A j \in 1..(i - 1) : s[j] # ":"
       IN SubSeq(s, 1, k - 1)
  ELSE s

\* .replace(/^www\./i, '')
StripWww(s) ==
  IF Len(s) >= 4 /\ ToLower(SubSeq(s, 1, 3)) = <<"w", "w", "w">> /\ s[4] = "."
  THEN SubSeq(s, 5, Len(s))
  ELSE s

CleanHost(rawHost) == StripWww(BeforeColon(rawHost))

\* /^[a-z0-9][a-z0-9.-]*\.[a-z]{2,}$/i.test(host)
MatchesDomain(s) ==
  \E i \in 2..Len(s) :
    /\ IsAlnum(s[1])
    /\ \A j \in 2..(i - 1) : IsDomainChar(s[j])
    /\ s[i] = "."
    /\ Len(s) - i >= 2
    /\ \A j \in (i + 1)..Len(s) : IsAlpha(s[j])

\* host.includes('..') || host.includes('/') || host.includes('\\')
Blacklisted(s) ==
  \/ Includes(s, <<".", ".">>)
  \/ Includes(s, <<"/">>)
  \/ Includes(s, <<"\\">>)

(***************************************************************************)
(* Paths (POSIX): path.join and path.normalize                             *)
(***************************************************************************)
RECURSIVE SplitSlash(_)
SplitSlash(s) ==
  IF \E i \in 1..Len(s) : s[i] = "/"
  THEN LET k == CHOOSE i \in 1..Len(s) : s[i] = "/" /\ \A j \in 1..(i - 1) : s[j] # "/"
       IN <<SubSeq(s, 1, k - 1)>> \o SplitSlash(SubSeq(s, k + 1, Len(s)))
  ELSE <<s>>

RECURSIVE ResolveSegs(_, _)
ResolveSegs(segs, acc) ==
  IF segs = <<>> THEN acc
  ELSE LET h == Head(segs)
           t == Tail(segs)
       IN IF h = <<>> \/ h = <<".">> THEN ResolveSegs(t, acc)
          ELSE IF h = <<".", ".">>
               THEN ResolveSegs(t, IF acc = <<>> THEN acc ELSE SubSeq(acc, 1, Len(acc) - 1))
               ELSE ResolveSegs(t, Append(acc, h))

RECURSIVE PathStr(_)
PathStr(segs) ==
  IF segs = <<>> THEN <<>> ELSE <<"/">> \o Head(segs) \o PathStr(Tail(segs))

\* path.normalize of an absolute path
NormalizePath(p) ==
  LET segs == ResolveSegs(SplitSlash(p), <<>>)
  IN IF segs = <<>> THEN <<"/">> ELSE PathStr(segs)

\* path.join(a, b) with a absolute
JoinPath(a, b) == NormalizePath(a \o <<"/">> \o b)

\* process.cwd(): the deployment root
Cwd == <<"/", "v", "/", "t">>

IndexHtml == <<"i", "n", "d", "e", "x", ".", "h", "t", "m", "l">>


\* variant: the root page joined to the filesystem root instead of the cwd
RootIndexPathNoCwd == JoinPath(<<"/">>, IndexHtml)

\* join(process.cwd(), 'index.html'), line 46
RootIndexPath == JoinPath(Cwd, IndexHtml)

(***************************************************************************)
(* Filesystem: the kind of each tracked path; any other path is absent.    *)
(*   file       readable regular file, well-formed UTF-8                   *)
(*   badfile    readable regular file holding an ill-formed UTF-8 byte     *)
(*   unreadable regular file without read permission                       *)
(*   dir        directory                                                  *)
(*   denied     a parent directory cannot be searched (EACCES)             *)
(*   ioerr      the device fails (EIO)                                     *)
(***************************************************************************)
Kinds == {"absent", "file", "badfile", "unreadable", "dir", "denied", "ioerr"}

SiteACo == <<"a", ".", "c", "o">>

TrackedPaths == {Cwd \o <<"/">> \o IndexHtml, Cwd \o <<"/">> \o SiteACo \o <<"/">> \o IndexHtml}

KindOf(f, p) == IF p \in DOMAIN f THEN f[p] ELSE "absent"

\* Bytes stored in a regular file: the first byte tells the root page ('R')
\* from a site page ('S'); then '<', then e-acute (C3 A9) or the ill-formed FF.
FileBytes(p, kind) ==
  LET b == IF p = Cwd \o <<"/">> \o IndexHtml THEN 82 ELSE 83
  IN IF kind = "badfile" THEN <<b, 60, 255>> ELSE <<b, 60, 195, 169>>

\* fs.existsSync: true iff the path can be reached; never throws
ExistsSync(f, p) == KindOf(f, p) \in {"file", "badfile", "unreadable", "dir"}

\* fs.statSync: [err |-> code] when it throws, else [err |-> "", isFile |-> ...]
StatSync(f, p) ==
  LET k == KindOf(f, p)
  IN CASE k = "absent" -> [err |-> "ENOENT", isFile |-> FALSE]
       [] k = "denied" -> [err |-> "EACCES", isFile |-> FALSE]
       [] k = "ioerr" -> [err |-> "EIO", isFile |-> FALSE]
       [] k = "dir" -> [err |-> "", isFile |-> FALSE]
       [] OTHER -> [err |-> "", isFile |-> TRUE]

\* Buffer -> string as UTF-8 (one- and two-byte sequences; any other byte is
\* ill-formed and becomes U+FFFD)
RECURSIVE Utf8Decode(_)
Utf8Decode(bs) ==
  IF bs = <<>> THEN <<>>
  ELSE LET b == Head(bs)
       IN IF b < 128 THEN <<b>> \o Utf8Decode(Tail(bs))
          ELSE IF b >= 194 /\ b <= 223 /\ Len(bs) >= 2 /\ bs[2] >= 128 /\ bs[2] <= 191
               THEN <<(b - 192) * 64 + (bs[2] - 128)>> \o Utf8Decode(SubSeq(bs, 3, Len(bs)))
               ELSE <<65533>> \o Utf8Decode(Tail(bs))

\* string -> bytes as UTF-8 (what res.send writes for a string body)
RECURSIVE Utf8Encode(_)
Utf8Encode(cps) ==
  IF cps = <<>> THEN <<>>
  ELSE LET c == Head(cps)
       IN (IF c < 128 THEN <<c>>
           ELSE IF c < 2048 THEN <<192 + (c \div 64), 128 + (c % 64)>>
           ELSE <<224 + (c \div 4096), 128 + ((c \div 64) % 64), 128 + (c % 64)>>)
          \o Utf8Encode(Tail(cps))

\* fs.readFileSync(path, 'utf-8'): [err |-> code] when it throws, else the text
ReadFileSync(f, p) ==
  LET k == KindOf(f, p)
  IN CASE k = "absent" -> [err |-> "ENOENT", text |-> <<>>]
       [] k = "denied" -> [err |-> "EACCES", text |-> <<>>]
       [] k = "unreadable" -> [err |-> "EACCES", text |-> <<>>]
       [] k = "ioerr" -> [err |-> "EIO", text |-> <<>>]
       [] k = "dir" -> [err |-> "EISDIR", text |-> <<>>]
       [] OTHER -> [err |-> "", text |-> Utf8Decode(FileBytes(p, k))]

(***************************************************************************)
(* Requests                                                                *)
(***************************************************************************)
Absent == [present |-> FALSE, val |-> <<>>]
Header(v) == [present |-> TRUE, val |-> v]

WwwPrefixes == {<<>>, <<"w", "w", "w", ".">>, <<"W", "w", "w", ".">>}
PortSuffixes == {<<>>, <<":", "8">>, <<":", "/">>}
Domains ==
  { <<"a", ".", "c", "o">>,
    <<"A", ".", "c", "o">>,
    <<"a", ".", ".", "c", "o">>,
    <<"a", "/", "c", "o">>,
    <<"a", "\\", "c", "o">>,
    <<"a", ".", "c">>,
    <<>> }

HostValues == {p \o d \o s : p \in WwwPrefixes, d \in Domains, s \in PortSuffixes}

ForwardedValues == {<<"a", ".", "c", "o">>, <<"a", "/", "c", "o">>}
DirectValues == {<<"A", ".", "c", "o">>, <<"a", ".", "c">>}

Urls == {<<"/">>, <<"/", "x">>}

\* x-forwarded-host absent: every host value; x-forwarded-host empty or set:
\* a few host values
HeaderPairs ==
  ({Absent} \X ({Absent} \cup {Header(h) : h \in HostValues}))
  \cup ({Header(<<>>)} \X ({Absent} \cup {Header(h) : h \in DirectValues}))
  \cup ({Header(h) : h \in ForwardedValues} \X ({Absent} \cup {Header(h) : h \in DirectValues}))

\* hasReq: whether the response object carries its request (res.req)
Requests ==
  {[xfh |-> hp[1], host |-> hp[2], url |-> u, hasReq |-> r] :
     hp \in HeaderPairs, u \in Urls, r \in BOOLEAN}

NoRequest == [xfh |-> Absent, host |-> Absent, url |-> <<"/">>, hasReq |-> FALSE]

(***************************************************************************)
(* Responses                                                               *)
(***************************************************************************)
NoResponse ==
  [status |-> 0, type |-> "none", message |-> "", hostInMessage |-> <<>>,
   domainDiv |-> <<>>, body |-> <<>>]

UnknownDomain == <<"?">>

\* a || b for header values: b when a is undefined or ''
OrElse(a, b) == IF a.present /\ a.val # <<>> THEN a.val ELSE b

\* variant: the host header consulted before x-forwarded-host
RawHostOfHostFirst(req) == OrElse(req.host, OrElse(req.xfh, <<>>))

\* req.headers['x-forwarded-host'] || req.headers.host || ''
RawHostOf(req) == OrElse(req.xfh, OrElse(req.host, <<>>))

Respond(c, r) == [c EXCEPT !.res = r, !.sent = c.sent + 1, !.pc = "done"]

\* send404(res, message): the page shows the message and res.req?.headers?.host
Send404(c, message, hostInMessage) ==
  Respond(c, [status |-> 404, type |-> "html404", message |-> message,
              hostInMessage |-> hostInMessage,
              domainDiv |-> IF c.req.hasReq THEN OrElse(c.req.host, UnknownDomain)
                            ELSE UnknownDomain,
              body |-> <<>>])

\* sendError(res, statusCode, message)
SendError(c, statusCode, message) ==
  Respond(c, [status |-> statusCode, type |-> "json", message |-> message,
              hostInMessage |-> <<>>, domainDiv |-> <<>>, body |-> <<>>])

Called(c, op, p, result) ==
  [c EXCEPT !.calls = Append(c.calls, [op |-> op, path |-> p, result |-> result])]

(***************************************************************************)
(* The handler, one operator per section                                   *)
(***************************************************************************)
IdleCtx ==
  [pc |-> "idle", req |-> NoRequest, rawHost |-> <<>>, host |-> <<>>,
   path |-> <<>>, filePath |-> <<>>, calls |-> <<>>, res |-> NoResponse,
   sent |-> 0, escaped |-> FALSE]

\* section 1, lines 8-10
Handler(req) ==
  [IdleCtx EXCEPT !.pc = "validate", !.req = req, !.rawHost = RawHostOf(req),
                  !.host = CleanHost(RawHostOf(req))]

\* variant: the '..' '/' '\' check dropped
ValidateNoBlacklist(c) ==
  IF c.host = <<>> \/ ~MatchesDomain(c.host)
  THEN Send404(c, "invalid domain", c.host)
  ELSE [c EXCEPT !.pc = "path"]

\* section 2, lines 15-24
Validate(c) ==
  IF c.host = <<>> \/ ~MatchesDomain(c.host)
  THEN Send404(c, "invalid domain", c.host)
  ELSE IF Blacklisted(c.host)
       THEN Send404(c, "illegal request", <<>>)
       ELSE [c EXCEPT !.pc = "path"]

\* section 3, lines 29-39
BuildPath(c) ==
  LET siteDir == JoinPath(Cwd, c.host)
      indexPath == JoinPath(siteDir, IndexHtml)
      normalizedPath == NormalizePath(indexPath)
  IN IF ~StartsWith(normalizedPath, Cwd)
     THEN Send404(c, "illegal path access", <<>>)
     ELSE [c EXCEPT !.pc = "exists", !.path = normalizedPath]

\* line 42
CheckExists(c, f) ==
  LET e == ExistsSync(f, c.path)
  IN [Called(c, "existsSync", c.path, IF e THEN "true" ELSE "false")
        EXCEPT !.pc = IF e THEN "stat" ELSE "fallback"]

\* variant: the landing page served whatever the url
FallbackAnyUrl(c, f) ==
  LET e == ExistsSync(f, RootIndexPath)
      c1 == Called(c, "existsSync", RootIndexPath, IF e THEN "true" ELSE "false")
  IN IF e
     THEN [c1 EXCEPT !.pc = "read", !.filePath = RootIndexPath]
     ELSE Send404(c1, "page not created", c.host)

\* lines 43-52
Fallback(c, f) ==
  LET e == ExistsSync(f, RootIndexPath)
      c1 == Called(c, "existsSync", RootIndexPath, IF e THEN "true" ELSE "false")
  IN IF e /\ c.req.url = <<"/">>
     THEN [c1 EXCEPT !.pc = "read", !.filePath = RootIndexPath]
     ELSE Send404(c1, "page not created", c.host)

\* variant: every caught error reported as 500
CatchErrorAll500(c, code) == SendError(c, 500, "internal server error")

\* catch block, lines 66-77
CatchError(c, code) ==
  IF code = "ENOENT" THEN Send404(c, "resource does not exist", <<>>)
  ELSE IF code = "EACCES" THEN SendError(c, 403, "no access permission")
  ELSE SendError(c, 500, "internal server error")

\* variant: the isFile() check dropped
StatCheckNoIsFile(c, f) ==
  LET stats == StatSync(f, c.path)
  IN IF stats.err # ""
     THEN CatchError(Called(c, "statSync", c.path, stats.err), stats.err)
     ELSE [Called(c, "statSync", c.path, IF stats.isFile THEN "file" ELSE "notfile")
             EXCEPT !.pc = "read", !.filePath = c.path]

\* lines 56-64
StatCheck(c, f) ==
  LET stats == StatSync(f, c.path)
  IN IF stats.err # ""
     THEN CatchError(Called(c, "statSync", c.path, stats.err), stats.err)
     ELSE IF ~stats.isFile
          THEN Send404(Called(c, "statSync", c.path, "notfile"), "wrong resource type", <<>>)
          ELSE [Called(c, "statSync", c.path, "file")
                  EXCEPT !.pc = "read", !.filePath = c.path]

\* variant: the file read as latin1, every byte one character
SendHtmlLatin1(c, f) ==
  LET r == ReadFileSync(f, c.filePath)
      k == KindOf(f, c.filePath)
  IN IF r.err # ""
     THEN SendError(Called(c, "readFileSync", c.filePath, r.err), 500, "cannot read page content")
     ELSE Respond(Called(c, "readFileSync", c.filePath, "ok"),
                  [status |-> 200, type |-> "html", message |-> "",
                   hostInMessage |-> <<>>, domainDiv |-> <<>>,
                   body |-> Utf8Encode(FileBytes(c.filePath, k))])

\* sendHtml(res, filePath, 200), lines 85-100
SendHtml(c, f) ==
  LET r == ReadFileSync(f, c.filePath)
  IN IF r.err # ""
     THEN SendError(Called(c, "readFileSync", c.filePath, r.err), 500, "cannot read page content")
     ELSE Respond(Called(c, "readFileSync", c.filePath, "ok"),
                  [status |-> 200, type |-> "html", message |-> "",
                   hostInMessage |-> <<>>, domainDiv |-> <<>>,
                   body |-> Utf8Encode(r.text)])

\* one step of the handler on filesystem f
Step(c, f) ==
  CASE c.pc = "validate" -> Validate(c)
    [] c.pc = "path" -> BuildPath(c)
    [] c.pc = "exists" -> CheckExists(c, f)
    [] c.pc = "fallback" -> Fallback(c, f)
    [] c.pc = "stat" -> StatCheck(c, f)
    [] c.pc = "read" -> SendHtml(c, f)
    [] OTHER -> c

\* the whole handler on a filesystem that does not change
RECURSIVE Run(_, _)
Run(c, f) == IF c.pc \in {"idle", "done"} THEN c ELSE Run(Step(c, f), f)

(***************************************************************************)
(* State machine                                                           *)
(***************************************************************************)
VARIABLES ctx, fs, changes

vars == <<ctx, fs, changes>>

Init ==
  /\ ctx = IdleCtx
  /\ fs \in [TrackedPaths -> Kinds]
  /\ changes = 0

Receive ==
  /\ ctx.pc \in {"idle", "done"}
  /\ \E req \in Requests : ctx' = Handler(req)
  /\ changes' = 0
  /\ UNCHANGED fs

DoValidate ==
  /\ ctx.pc = "validate"
  /\ ctx' = Validate(ctx)
  /\ UNCHANGED <<fs, changes>>

DoBuildPath ==
  /\ ctx.pc = "path"
  /\ ctx' = BuildPath(ctx)
  /\ UNCHANGED <<fs, changes>>

DoCheckExists ==
  /\ ctx.pc = "exists"
  /\ ctx' = CheckExists(ctx, fs)
  /\ UNCHANGED <<fs, changes>>

DoFallback ==
  /\ ctx.pc = "fallback"
  /\ ctx' = Fallback(ctx, fs)
  /\ UNCHANGED <<fs, changes>>

DoStatCheck ==
  /\ ctx.pc = "stat"
  /\ ctx' = StatCheck(ctx, fs)
  /\ UNCHANGED <<fs, changes>>

DoSendHtml ==
  /\ ctx.pc = "read"
  /\ ctx' = SendHtml(ctx, fs)
  /\ UNCHANGED <<fs, changes>>

\* the environment changes one path between two filesystem calls of a request
FsChange ==
  /\ ctx.pc \in {"fallback", "stat", "read"}
  /\ changes < MaxFsChanges
  /\ \E p \in TrackedPaths, k \in Kinds :
       /\ k # fs[p]
       /\ fs' = [fs EXCEPT ![p] = k]
  /\ changes' = changes + 1
  /\ UNCHANGED ctx

Next ==
  \/ Receive
  \/ DoValidate
  \/ DoBuildPath
  \/ DoCheckExists
  \/ DoFallback
  \/ DoStatCheck
  \/ DoSendHtml
  \/ FsChange

Spec == Init /\ [][Next]_vars


(***************************************************************************)
(* Properties                                                              *)
(***************************************************************************)
Done == ctx.pc = "done"

\* the filesystem has not changed since the request arrived
Static == changes = 0

\* a host that passes both checks of section 2
HostOk(h) == h # <<>> /\ MatchesDomain(h) /\ ~Blacklisted(h)

SitePathOf(h) == Cwd \o <<"/">> \o h \o <<"/">> \o IndexHtml
RootPath == Cwd \o <<"/">> \o IndexHtml

Exists(p) == KindOf(fs, p) \in {"file", "badfile", "unreadable", "dir"}
IsRegular(p) == KindOf(fs, p) \in {"file", "badfile", "unreadable"}
Bytes(p) == FileBytes(p, KindOf(fs, p))

CallsOf(op) == {i \in DOMAIN ctx.calls : ctx.calls[i].op = op}

\* C1 as stated: a host matching the pattern whose <cwd>/<host>/index.html is
\* a regular file gets 200 and exactly the bytes of that file, for any url.
C1_Original ==
  (Done /\ Static /\ MatchesDomain(ctx.host) /\ IsRegular(SitePathOf(ctx.host)))
    => (ctx.res.status = 200 /\ ctx.res.body = Bytes(SitePathOf(ctx.host)))

\* C1 amended: for a host passing validation whose <cwd>/<host>/index.html is
\* a regular file, for any url: a readable well-formed UTF-8 file is answered
\* 200 with exactly its bytes; a readable file with ill-formed UTF-8 is
\* answered 200 with its decoded-and-re-encoded text, which differs from the
\* bytes; a file that cannot be read is answered 500.
C1_Served ==
  (Done /\ Static /\ HostOk(ctx.host) /\ IsRegular(SitePathOf(ctx.host)))
    => LET p == SitePathOf(ctx.host)
           k == KindOf(fs, p)
       IN /\ k = "file" => (ctx.res.status = 200 /\ ctx.res.body = Bytes(p))
          /\ k = "badfile" => /\ ctx.res.status = 200
                              /\ ctx.res.body = Utf8Encode(Utf8Decode(Bytes(p)))
                              /\ ctx.res.body # Bytes(p)
          /\ k = "unreadable" => ctx.res.status = 500

C1_Witness ==
  /\ Done /\ Static /\ HostOk(ctx.host)
  /\ KindOf(fs, SitePathOf(ctx.host)) = "file"
  /\ ctx.req.url = <<"/", "x">>
  /\ ctx.res.status = 200
  /\ ctx.res.body = <<83, 60, 195, 169>>

\* C2 as stated: when the header value used as host contains '..', '/' or
\* '\', the response is 404 and no filesystem call is made.
C2_Original ==
  Blacklisted(ctx.rawHost)
    => (ctx.calls = <<>> /\ (Done => ctx.res.status = 404))

\* C2 amended: when the host left after removing the ':port' suffix and the
\* 'www.' prefix contains '..', '/' or '\', the response is 404 and no
\* filesystem call is made.
C2_CleanHostRejected ==
  Blacklisted(ctx.host)
    => (ctx.calls = <<>> /\ (Done => ctx.res.status = 404))

C2_Witness ==
  /\ Done
  /\ Includes(ctx.host, <<".", ".">>)
  /\ MatchesDomain(ctx.host)
  /\ ctx.res.status = 404
  /\ ctx.calls = <<>>

\* C3 as stated: for a valid host without a site page, the response is 200
\* with the content of <cwd>/index.html iff the url is '/' and that file
\* exists, and 404 in every other case.
C3_Original ==
  (Done /\ Static /\ HostOk(ctx.host) /\ ~Exists(SitePathOf(ctx.host)))
    => IF ctx.req.url = <<"/">> /\ Exists(RootPath)
       THEN ctx.res.status = 200 /\ ctx.res.body = Bytes(RootPath)
       ELSE ctx.res.status = 404

\* C3 amended: for a valid host without a site page: when the url is '/' and
\* <cwd>/index.html exists, the response is 200 with the UTF-8 text of that
\* file if it is a readable regular file and 500 if it cannot be read (a
\* directory, or no read permission); in every other case it is 404.
C3_Fallback ==
  (Done /\ Static /\ HostOk(ctx.host) /\ ~Exists(SitePathOf(ctx.host)))
    => IF ctx.req.url = <<"/">> /\ Exists(RootPath)
       THEN LET k == KindOf(fs, RootPath)
            IN /\ k = "file" => (ctx.res.status = 200 /\ ctx.res.body = Bytes(RootPath))
               /\ k = "badfile" => /\ ctx.res.status = 200
                                   /\ ctx.res.body = Utf8Encode(Utf8Decode(Bytes(RootPath)))
               /\ k \in {"dir", "unreadable"} => ctx.res.status = 500
       ELSE ctx.res.status = 404

C3_Witness ==
  /\ Done /\ Static /\ HostOk(ctx.host)
  /\ ~Exists(SitePathOf(ctx.host))
  /\ ctx.req.url = <<"/">>
  /\ KindOf(fs, RootPath) = "file"
  /\ ctx.res.status = 200
  /\ ctx.res.body = <<82, 60, 195, 169>>

\* C4: when <cwd>/<host>/index.html exists but is not a regular file (the
\* filesystem unchanged during the request, or statSync reporting it so), the
\* response is 404 and readFileSync is never called on that path.
C4_NotAFile ==
  LET notFile == \/ /\ Static /\ HostOk(ctx.host) /\ ctx.pc \notin {"validate", "path"}
                    /\ KindOf(fs, SitePathOf(ctx.host)) = "dir"
                 \/ \E i \in CallsOf("statSync") : ctx.calls[i].result = "notfile"
  IN notFile =>
       /\ \A i \in CallsOf("readFileSync") : ctx.calls[i].path # SitePathOf(ctx.host)
       /\ Done => ctx.res.status = 404

C4_Witness ==
  /\ Done /\ Static /\ HostOk(ctx.host)
  /\ KindOf(fs, SitePathOf(ctx.host)) = "dir"
  /\ \E i \in CallsOf("statSync") : ctx.calls[i].result = "notfile"
  /\ ctx.res.status = 404
  /\ ctx.res.message = "wrong resource type"

\* C5: every path handed to existsSync, statSync or readFileSync is
\* <cwd>/index.html or <cwd>/<host>/index.html for a host that passed
\* validation, and so lies inside the working directory.
C5_PathsInsideCwd ==
  \A i \in DOMAIN ctx.calls :
    LET p == ctx.calls[i].path
    IN /\ StartsWith(p, Cwd \o <<"/">>)
       /\ \/ p = Cwd \o <<"/">> \o IndexHtml
          \/ HostOk(ctx.host) /\ p = SitePathOf(ctx.host)

C5_Witness ==
  /\ Done
  /\ Len(ctx.calls) = 3
  /\ ctx.calls[1].path = SitePathOf(ctx.host)
  /\ ctx.calls[2].path = Cwd \o <<"/">> \o IndexHtml
  /\ ctx.calls[3].op = "readFileSync"

\* C6 as stated: a 404 body embeds, besides fixed text, only a host that
\* passed validation; neither a host that failed validation nor the raw host
\* header is embedded.
C6_Original ==
  (Done /\ ctx.res.status = 404)
    => /\ ctx.res.hostInMessage = <<>> \/ HostOk(ctx.res.hostInMessage)
       /\ ctx.res.domainDiv = UnknownDomain \/ HostOk(ctx.res.domainDiv)

\* C7: at most one response is ever sent and no exception escapes; when the
\* handler is done exactly one response was sent; a failed read gives 500; a
\* statSync failure gives 404 for ENOENT, 403 for EACCES and 500 otherwise;
\* no filesystem call is repeated.
C7_ErrorsMapped ==
  /\ ~ctx.escaped
  /\ ctx.sent = IF Done THEN 1 ELSE 0
  /\ \A i, j \in DOMAIN ctx.calls :
       (ctx.calls[i].op = ctx.calls[j].op /\ ctx.calls[i].path = ctx.calls[j].path) => i = j
  /\ Done =>
       /\ \A i \in CallsOf("readFileSync") :
            ctx.calls[i].result # "ok" => (ctx.res.status = 500 /\ ctx.res.type = "json")
       /\ \A i \in CallsOf("statSync") :
            /\ ctx.calls[i].result = "ENOENT" => ctx.res.status = 404
            /\ ctx.calls[i].result = "EACCES" => ctx.res.status = 403
            /\ ctx.calls[i].result = "EIO" => ctx.res.status = 500

C7_Witness ==
  /\ Done
  /\ changes = 1
  /\ \E i \in CallsOf("statSync") : ctx.calls[i].result = "EACCES"
  /\ ctx.res.status = 403
  /\ ctx.sent = 1

\* the request with its host headers lower-cased
LowerReq(req) ==
  [req EXCEPT !.xfh = [present |-> req.xfh.present, val |-> ToLower(req.xfh.val)],
              !.host = [present |-> req.host.present, val |-> ToLower(req.host.val)]]

\* C8 as stated: the host is lower-cased, so a request and the same request
\* with its host in lower case resolve to <cwd>/<lower-cased host>/index.html.
C8_Original ==
  (Done /\ HostOk(ctx.host))
    => /\ ctx.path = SitePathOf(ToLower(ctx.host))
       /\ Run(Handler(LowerReq(ctx.req)), fs).path = ctx.path

\* C9 as stated: for a valid domain X, the request with host 'www.X' (prefix
\* in any case, with or without ':port') and the request with host X resolve
\* to <cwd>/X and get the same response.
C9_Original ==
  (Done /\ Static /\ ~ctx.req.xfh.present /\ ctx.req.host.present /\ HostOk(ctx.req.host.val))
    => LET X == ctx.req.host.val
       IN \A p \in WwwPrefixes \ {<<>>}, s \in {<<>>, <<":", "8">>} :
            LET o == Run(Handler([ctx.req EXCEPT !.host = Header(p \o X \o s)]), fs)
            IN /\ ctx.path = SitePathOf(X)
               /\ o.path = SitePathOf(X)
               /\ o.res = ctx.res

\* C10: the host is taken from x-forwarded-host when that header is present
\* and not empty, else from the host header when that is present and not
\* empty, else it is empty; only that host is validated and resolved.
C10_ForwardedFirst ==
  ctx.pc # "idle" =>
    LET used == IF ctx.req.xfh.present /\ ctx.req.xfh.val # <<>> THEN ctx.req.xfh.val
                ELSE IF ctx.req.host.present /\ ctx.req.host.val # <<>> THEN ctx.req.host.val
                ELSE <<>>
    IN /\ ctx.host = CleanHost(used)
       /\ \A i \in DOMAIN ctx.calls :
            ctx.calls[i].path \in {RootPath, SitePathOf(CleanHost(used))}
       /\ (Done /\ used = <<>>) => ctx.res.status = 404

C10_Witness ==
  /\ Done
  /\ ctx.req.xfh = Header(<<"a", ".", "c", "o">>)
  /\ ctx.req.host = Header(<<"A", ".", "c", "o">>)
  /\ ctx.calls # <<>>
  /\ ctx.calls[1].path = SitePathOf(<<"a", ".", "c", "o">>)
  /\ ctx.res.status = 200

====
